---- MODULE Spec2Model ----
(***************************************************************************)
(* Gemini StudyPal (src/app.py): a Streamlit script.  Every user           *)
(* interaction of a browser session re-runs the script top to bottom; the  *)
(* sessions of one server process share the st.cache_data cache of         *)
(* generate_content, whose key is made of the arguments NOT prefixed by an *)
(* underscore: (system_instruction, prompt).                               *)
(*                                                                         *)
(* A script run is modelled as one step for its head (widgets, the         *)
(* Analyze button, lines 142-204) followed by one step per tab; the tabs   *)
(* are separated by blocking remote calls and time.sleep(1), so the runs   *)
(* of different sessions interleave between them.  A cached call is one    *)
(* step: st.cache_data computes a missing value under a per-key lock.      *)
(***************************************************************************)
EXTENDS Integers, Sequences, FiniteSets, TLC

\* ---------------------------------------------------------------- bounds
\* The longest raw URL of the specification of the cleaning alone.
MaxLen == 4

Sessions == {"s1", "s2"}
Subjects == {"General Study", "Biology"}
\* The batches a user can put in the file uploader; "bad.png" does not decode.
Batches == {<<>>, <<"n1.png">>, <<"n2.png">>, <<"n1.png", "bad.png">>}
Corrupt == {"bad.png"}
\* The batches of the two-session specification: each session has notes of its own.
SharedBatches(s) == {<<>>, IF s = "s1" THEN <<"n1.png">> ELSE <<"n2.png">>}
Solo == "s1"
ApiKeys == {"None", "secret"}

Tasks == {"flashcards", "quiz", "explainer", "video"}

\* ------------------------------------------------------------ characters
QUOTE == "\""
Whitespace == {" "}
Alphabet == {"a", " ", QUOTE}

RECURSIVE LStrip(_)
LStrip(s) == IF s # <<>> /\ Head(s) \in Whitespace THEN LStrip(Tail(s)) ELSE s

RECURSIVE RStrip(_)
RStrip(s) ==
  IF s # <<>> /\ s[Len(s)] \in Whitespace THEN RStrip(SubSeq(s, 1, Len(s) - 1)) ELSE s

\* str.strip()
Strip(s) == RStrip(LStrip(s))

\* (a variant that forgets the "$ alternative of the pattern)
SubQuotes_LeadingOnly(s) == IF s # <<>> /\ Head(s) = QUOTE THEN Tail(s) ELSE s

\* re.sub(r'(^"|"$)', '', s): one quote at the start and one at the end
SubQuotes(s) ==
  LET a == IF s # <<>> /\ Head(s) = QUOTE THEN Tail(s) ELSE s
  IN  IF a # <<>> /\ a[Len(a)] = QUOTE THEN SubSeq(a, 1, Len(a) - 1) ELSE a

\* lines 314-316
CleanUrl(raw_url) == SubQuotes(Strip(raw_url))

\* ------------------------------------------------------------ JSON values
\* A parsed JSON value as far as the script looks at it: its type, the keys of
\* an object, the key sets of the objects of an array, and the string under
\* 'video_url'.
NoneVal == [type |-> "none", keys |-> {}, elems |-> <<>>, url |-> <<>>]
Unset == [type |-> "unset", keys |-> {}, elems |-> <<>>, url |-> <<>>]
Obj(ks, u) == [type |-> "object", keys |-> ks, elems |-> <<>>, url |-> u]
Arr(es) == [type |-> "array", keys |-> {}, elems |-> es, url |-> <<>>]

FlashKeys == {"question", "answer"}
QuizKeys == {"question", "options", "correct_answer", "explanation"}
VideoKeys == {"video_url", "video_search_query"}

\* The URLs the remote model answers with: a quoted URL and a quoted empty one.
RawUrls == {<<QUOTE, "a", QUOTE>>, <<QUOTE, QUOTE>>}

\* Payloads of the shape the task's system instruction asks for.
Good(t) ==
  CASE t = "flashcards" -> {Arr(<<FlashKeys>>)}
    [] t = "quiz" -> {Arr(<<QuizKeys>>)}
    [] t = "explainer" -> {Obj({"tutor_response"}, <<>>)}
    [] t = "video" -> {Obj(VideoKeys, u) : u \in RawUrls}

\* Valid JSON of another shape: an object without the keys, an array of an
\* object that lacks a key, an empty array.
Malformed == {Obj({"error"}, <<>>), Arr(<<{"question"}>>), Arr(<<>>)}

\* What the remote call can do: raise, answer with text that is no JSON, or
\* answer with JSON.
RemoteOutcomes(t) ==
  {[status |-> "api_error", json |-> NoneVal], [status |-> "non_json", json |-> NoneVal]}
  \cup {[status |-> "json", json |-> j] : j \in Good(t) \cup Malformed}

\* The answers of the two-session specification: a failure or a payload of the
\* task's shape.
SharedOutcomes(t) ==
  {[status |-> "api_error", json |-> NoneVal]}
  \cup {[status |-> "json", json |-> j] : j \in Good(t)}

\* Python truthiness of a returned value
Truthy(v) ==
  CASE v.type = "object" -> v.keys # {}
    [] v.type = "array" -> v.elems # <<>>
    [] OTHER -> FALSE

\* ------------------------------------------------------------------ state
VARIABLES
  apiKey,              \* os.getenv("GEMINI_API_KEY")
  cache,               \* st.cache_data of generate_content, process-wide
  uploaded_files,      \* the file uploader widget, per session
  subject_input,       \* the text input widget, per session
  ready,               \* st.session_state.ready
  image_list,          \* st.session_state.image_list
  subject,             \* st.session_state.subject
  video_url,           \* st.session_state.video_url
  video_search_query,  \* st.session_state.video_search_query
  pc,                  \* where each session's script run stands
  panel,               \* what each tab shows in the current script run
  results,             \* history: what generate_content last returned to the session
                       \* for each task since the cache was last cleared
  fresh,               \* history: the script run is the first of a run that follows
                       \* a run of the session with the same subject
  raw_url,             \* line 314, in the specification of the cleaning alone
  clean_url,           \* lines 315-316, there
  clean_again,         \* lines 315-316 applied to clean_url, there
  cleanings            \* how often the cleaning was applied, there

appVars == <<apiKey, cache, uploaded_files, subject_input, ready, image_list, subject,
             video_url, video_search_query, pc, panel, results, fresh>>
cleanVars == <<raw_url, clean_url, clean_again, cleanings>>
vars == <<appVars, cleanVars>>

\* A value generate_content returns, with the image list the remote model was
\* given when it produced it (the payload's content depends on it).
Ret(v, imgs) == [val |-> v, of |-> imgs]
NoneRet == Ret(NoneVal, <<>>)
NotCalled == Ret(Unset, <<>>)

NoUrl == [some |-> FALSE, str |-> <<>>]
Some(u) == [some |-> TRUE, str |-> u]
\* truthiness of a session-state string: None and '' are falsy
StrTruthy(x) == x.some /\ x.str # <<>>

NoPanels == [t \in Tasks |-> "none"]
NoResults == [t \in Tasks |-> NotCalled]

\* lines 17-23
NoClient == "None"
\* (a variant that builds the client without looking at the key)
InitClient_Always(key) == "client"

InitClient(key) == IF key = "None" THEN NoClient ELSE "client"
client == InitClient(apiKey)

\* line 184: Image.open of every file; one failure loses the whole list (186-187)
OpenImages(files) ==
  IF \E i \in 1..Len(files) : files[i] \in Corrupt THEN <<>> ELSE files

\* ------------------------------------------------------- generate_content
\* lines 210-215, 234-239, 264-274, 300-306: the f-string holds the subject
SysInstruction(subj, t) == <<t, subj>>
Prompt(t) == t

\* line 104: _client and _images are left out of the cache key
CacheKey(imgs, system_instruction, prompt) == <<system_instruction, prompt>>

\* lines 118-135: the value of a call that reaches the remote model
Parse(outcome, imgs) ==
  IF outcome.status = "json" THEN Ret(outcome.json, imgs) ELSE NoneRet

\* (a variant without the decorator: nothing is stored)
Stored_Never(ret) == FALSE

\* line 103: st.cache_data stores whatever the function returns
Stored(ret) == TRUE

\* lines 107-108
ShortCircuit(c) == c = NoClient

Returned(c, imgs, k, outcome) ==
  IF k \in DOMAIN cache THEN cache[k]
  ELSE IF ShortCircuit(c) THEN NoneRet
  ELSE Parse(outcome, imgs)

CallsRemote(c, k) == k \notin DOMAIN cache /\ ~ShortCircuit(c)

\* The call generate_content(client, images, sys, prompt) of session s in the tab
\* of task t: its cache key, the value it returns, and its effect.
KeyOf(s, t) == CacheKey(image_list[s], SysInstruction(subject[s], t), Prompt(t))

RetOf(s, t, outcome) == Returned(client, image_list[s], KeyOf(s, t), outcome)

GenerateContent(s, t, outcome) ==
  LET k == KeyOf(s, t)
      ret == RetOf(s, t, outcome)
  IN  /\ cache' = IF k \notin DOMAIN cache /\ Stored(ret) THEN cache @@ (k :> ret) ELSE cache
      /\ results' = [results EXCEPT ![s][t] = ret]

\* ---------------------------------------------------------------- panels
\* lines 220-226
RenderFlashcards(v) ==
  IF ~Truthy(v) THEN "warning"
  ELSE IF v.type = "array" /\ \A i \in 1..Len(v.elems) : FlashKeys \subseteq v.elems[i]
       THEN "result" ELSE "error"

\* lines 244-256
RenderQuiz(v) ==
  IF ~Truthy(v) THEN "warning"
  ELSE IF v.type = "array" /\ \A i \in 1..Len(v.elems) : QuizKeys \subseteq v.elems[i]
       THEN "result" ELSE "error"

\* lines 279-284
RenderExplainer(v) ==
  IF Truthy(v) /\ v.type = "object" /\ "tutor_response" \in v.keys
  THEN "result" ELSE "warning"

\* line 312
VideoFound(v) == Truthy(v) /\ v.type = "object" /\ VideoKeys \subseteq v.keys

\* line 293
VideoAlreadySet(url) == StrTruthy(url)

TabPc(t) ==
  CASE t = "flashcards" -> "tab1" [] t = "quiz" -> "tab2"
    [] t = "explainer" -> "tab3" [] t = "video" -> "tab4"

\* An uncaught exception ends the script run.
After(outcome, next) == IF outcome = "error" THEN "idle" ELSE next

\* ------------------------------------------------------------ script runs
\* lines 152-204 of one script run of session s, with the widgets' new values.
ScriptHead(s, files, subj_in, clicked) ==
  /\ uploaded_files' = [uploaded_files EXCEPT ![s] = files]
  /\ subject_input' = [subject_input EXCEPT ![s] = subj_in]
  /\ panel' = [panel EXCEPT ![s] = NoPanels]
  /\ IF clicked
     THEN /\ cache' = <<>>
          /\ video_url' = [video_url EXCEPT ![s] = NoUrl]
          /\ video_search_query' = [video_search_query EXCEPT ![s] = NoUrl]
          /\ image_list' = [image_list EXCEPT ![s] = OpenImages(files)]
          /\ subject' = [subject EXCEPT ![s] = subj_in]
          /\ ready' = [ready EXCEPT ![s] = TRUE]
          /\ results' = [x \in Sessions |-> NoResults]
          /\ fresh' = [fresh EXCEPT ![s] = ready[s] /\ subject[s] = subj_in]
     ELSE UNCHANGED <<cache, video_url, video_search_query, image_list,
                      subject, ready, results, fresh>>
  /\ pc' = [pc EXCEPT ![s] =
              IF files # <<>> /\ client # NoClient /\ ready'[s] THEN "tab1" ELSE "idle"]
  /\ UNCHANGED <<apiKey, cleanVars>>

\* The user changes the uploaded files.
Upload(s, files) ==
  /\ pc[s] = "idle"
  /\ files # uploaded_files[s]
  /\ ScriptHead(s, files, subject_input[s], FALSE)

\* The user edits the subject.
SetSubject(s, subj) ==
  /\ pc[s] = "idle"
  /\ subj # subject_input[s]
  /\ ScriptHead(s, uploaded_files[s], subj, FALSE)

\* The same, of a user who settles the subject before the first analysis.
SettleSubject(s, subj) == ~ready[s] /\ SetSubject(s, subj)

\* lines 170-176: the button exists only with files and a client
ButtonShown(s) == uploaded_files[s] # <<>> /\ client # NoClient

\* The user clicks "Analyze and Generate Study Tools".
Analyze(s) ==
  /\ pc[s] = "idle"
  /\ ButtonShown(s)
  /\ ScriptHead(s, uploaded_files[s], subject_input[s], TRUE)

\* lines 207-228
FlashcardTab(s, outcome) ==
  /\ pc[s] = "tab1"
  /\ GenerateContent(s, "flashcards", outcome)
  /\ LET shown == RenderFlashcards(RetOf(s, "flashcards", outcome).val)
     IN  /\ panel' = [panel EXCEPT ![s]["flashcards"] = shown]
         /\ pc' = [pc EXCEPT ![s] = After(shown, "tab2")]
         /\ fresh' = [fresh EXCEPT ![s] = fresh[s] /\ shown # "error"]
  /\ UNCHANGED <<apiKey, uploaded_files, subject_input, ready, image_list, subject,
                 video_url, video_search_query, cleanVars>>

\* lines 231-258
QuizTab(s, outcome) ==
  /\ pc[s] = "tab2"
  /\ GenerateContent(s, "quiz", outcome)
  /\ LET shown == RenderQuiz(RetOf(s, "quiz", outcome).val)
     IN  /\ panel' = [panel EXCEPT ![s]["quiz"] = shown]
         /\ pc' = [pc EXCEPT ![s] = After(shown, "tab3")]
         /\ fresh' = [fresh EXCEPT ![s] = fresh[s] /\ shown # "error"]
  /\ UNCHANGED <<apiKey, uploaded_files, subject_input, ready, image_list, subject,
                 video_url, video_search_query, cleanVars>>

\* lines 261-286
ExplainerTab(s, outcome) ==
  /\ pc[s] = "tab3"
  /\ GenerateContent(s, "explainer", outcome)
  /\ LET shown == RenderExplainer(RetOf(s, "explainer", outcome).val)
     IN  /\ panel' = [panel EXCEPT ![s]["explainer"] = shown]
         /\ pc' = [pc EXCEPT ![s] = After(shown, "tab4")]
         /\ fresh' = [fresh EXCEPT ![s] = fresh[s] /\ shown # "error"]
  /\ UNCHANGED <<apiKey, uploaded_files, subject_input, ready, image_list, subject,
                 video_url, video_search_query, cleanVars>>

\* lines 289-331
VideoTab(s, outcome) ==
  /\ pc[s] = "tab4"
  /\ pc' = [pc EXCEPT ![s] = "idle"]
  /\ IF VideoAlreadySet(video_url[s])
     THEN /\ panel' = [panel EXCEPT ![s]["video"] = "result"]
          /\ UNCHANGED <<cache, results, video_url, video_search_query>>
     ELSE /\ GenerateContent(s, "video", outcome)
          /\ LET video_data == RetOf(s, "video", outcome).val
             IN  IF VideoFound(video_data)
                 THEN /\ video_url' = [video_url EXCEPT ![s] = Some(CleanUrl(video_data.url))]
                      /\ video_search_query' =
                           [video_search_query EXCEPT ![s] = Some(<<"a">>)]
                      /\ panel' = [panel EXCEPT ![s]["video"] = "result"]
                 ELSE /\ panel' = [panel EXCEPT ![s]["video"] = "warning"]
                      /\ UNCHANGED <<video_url, video_search_query>>
  /\ fresh' = [fresh EXCEPT ![s] = FALSE]
  /\ UNCHANGED <<apiKey, uploaded_files, subject_input, ready, image_list, subject,
                 cleanVars>>

InitApp ==
  /\ cache = <<>>
  /\ uploaded_files = [s \in Sessions |-> <<>>]
  /\ subject_input = [s \in Sessions |-> "General Study"]
  /\ ready = [s \in Sessions |-> FALSE]
  /\ image_list = [s \in Sessions |-> <<>>]
  /\ subject = [s \in Sessions |-> "General Study"]
  /\ video_url = [s \in Sessions |-> NoUrl]
  /\ video_search_query = [s \in Sessions |-> NoUrl]
  /\ pc = [s \in Sessions |-> "idle"]
  /\ panel = [s \in Sessions |-> NoPanels]
  /\ results = [s \in Sessions |-> NoResults]
  /\ fresh = [s \in Sessions |-> FALSE]

Init ==
  /\ apiKey \in ApiKeys
  /\ InitApp
  /\ raw_url = <<>>
  /\ clean_url = <<>>
  /\ clean_again = <<>>
  /\ cleanings = 0

\* Two browser sessions on one server process, each with notes of its own and
\* a subject it settles before its first analysis.
Next ==
  \E s \in Sessions :
    \/ \E files \in SharedBatches(s) : Upload(s, files)
    \/ \E subj \in Subjects : SettleSubject(s, subj)
    \/ Analyze(s)
    \/ \E outcome \in SharedOutcomes("flashcards") : FlashcardTab(s, outcome)
    \/ \E outcome \in SharedOutcomes("quiz") : QuizTab(s, outcome)
    \/ \E outcome \in SharedOutcomes("explainer") : ExplainerTab(s, outcome)
    \/ \E outcome \in SharedOutcomes("video") : VideoTab(s, outcome)

Spec == Init /\ [][Next]_vars

\* One browser session, with every batch and every answer of the remote model.
NextSolo ==
  \/ \E files \in Batches : Upload(Solo, files)
  \/ \E subj \in Subjects : SetSubject(Solo, subj)
  \/ Analyze(Solo)
  \/ \E outcome \in RemoteOutcomes("flashcards") : FlashcardTab(Solo, outcome)
  \/ \E outcome \in RemoteOutcomes("quiz") : QuizTab(Solo, outcome)
  \/ \E outcome \in RemoteOutcomes("explainer") : ExplainerTab(Solo, outcome)
  \/ \E outcome \in RemoteOutcomes("video") : VideoTab(Solo, outcome)

SpecSolo == Init /\ [][NextSolo]_vars

\* ------------------------------------------------- the URL cleaning alone
RECURSIVE Strings(_)
Strings(n) ==
  IF n = 0 THEN {<<>>}
  ELSE LET shorter == Strings(n - 1)
       IN  shorter \cup {Append(w, c) : w \in shorter, c \in Alphabet}

InitClean ==
  /\ apiKey = "secret"
  /\ InitApp
  /\ raw_url \in Strings(MaxLen)
  /\ clean_url = <<>>
  /\ clean_again = <<>>
  /\ cleanings = 0

\* lines 314-316 on the raw URL
Clean ==
  /\ cleanings = 0
  /\ clean_url' = CleanUrl(raw_url)
  /\ cleanings' = 1
  /\ UNCHANGED <<raw_url, clean_again, appVars>>

\* lines 315-316 again, on the cleaned URL
CleanAgain ==
  /\ cleanings = 1
  /\ clean_again' = CleanUrl(clean_url)
  /\ cleanings' = 2
  /\ UNCHANGED <<raw_url, clean_url, appVars>>

NextClean == Clean \/ CleanAgain

SpecClean == InitClean /\ [][NextClean]_vars

\* ------------------------------------------------------------ properties
\* A step in which session s calls generate_content in the tab of task t, and
\* one in which that call reaches the remote model (line 120).
CallStep(s, t) ==
  /\ pc[s] = TabPc(t)
  /\ pc'[s] # pc[s]
  /\ t = "video" => ~VideoAlreadySet(video_url[s])

RemoteStep(s, t) == CallStep(s, t) /\ CallsRemote(client, KeyOf(s, t))

\* A returned value that is a parsed payload.
Payload(r) == r.val \notin {Unset, NoneVal}

\* The top-level shape each task asks for.
HasShape(t, v) ==
  CASE t = "flashcards" ->
         v.type = "array" /\ \A i \in 1..Len(v.elems) : FlashKeys \subseteq v.elems[i]
    [] t = "quiz" ->
         v.type = "array" /\ \A i \in 1..Len(v.elems) : QuizKeys \subseteq v.elems[i]
    [] t = "explainer" -> v.type = "object" /\ "tutor_response" \in v.keys
    [] t = "video" -> v.type = "object" /\ VideoKeys \subseteq v.keys

\* A string that neither starts nor ends with whitespace or a double quote.
IsClean(u) ==
  u = <<>> \/ (Head(u) \notin Whitespace \cup {QUOTE} /\ u[Len(u)] \notin Whitespace \cup {QUOTE})

\* C1: a call of generate_content that follows, with no cache clear in between,
\* a call of the same session for the same task that returned None reaches the
\* remote model again.
C1_FailedCallIsRetried ==
  [][\A s \in Sessions, t \in Tasks :
       (CallStep(s, t) /\ results[s][t] = NoneRet) => CallsRemote(client, KeyOf(s, t))]_vars

\* C2: every payload generate_content returned to a session was produced by a
\* remote call that was given the session's image list.
C2_PayloadFromOwnImages ==
  \A s \in Sessions, t \in Tasks :
    Payload(results[s][t]) => results[s][t].of = image_list[s]

\* C3: in the first script run after an Analyze click that follows a run with
\* the same subject, every task's request is answered by a fresh remote call.
C3_FreshAfterRetrigger ==
  [][\A s \in Sessions, t \in Tasks :
       (CallStep(s, t) /\ fresh[s]) => CallsRemote(client, KeyOf(s, t))]_vars

\* C4: once the video tab has stored a video URL in the session state, no
\* script run of the same run (no Analyze click of the session since) makes a
\* remote call for the video task.
C4_VideoNotRecomputed ==
  [][\A s \in Sessions : video_url[s].some => ~RemoteStep(s, "video")]_vars

\* C5: a call of generate_content that follows, with no cache clear and no
\* change of the session's images and subject in between, a call for the same
\* task that returned a payload does not reach the remote model and returns
\* that payload.
C5_SecondCallIsCacheHit ==
  [][\A s \in Sessions, t \in Tasks :
       (CallStep(s, t) /\ Payload(results[s][t]))
         => (~CallsRemote(client, KeyOf(s, t)) /\ results'[s][t] = results[s][t])]_vars

\* A second script run of a run has called for the flashcards again and has
\* shown the payload of the first.
C5_Witness ==
  \E s \in Sessions :
    /\ pc[s] = "tab2"
    /\ results[s]["quiz"] # NotCalled
    /\ Payload(results[s]["flashcards"])
    /\ panel[s]["flashcards"] = "result"

\* C6: a panel that was given a payload without its task's top-level shape
\* shows its warning (and the script run does not end in an uncaught error).
C6_MalformedGivesWarning ==
  \A s \in Sessions, t \in Tasks :
    (panel[s][t] # "none" /\ Payload(results[s][t]) /\ ~HasShape(t, results[s][t].val))
      => panel[s][t] = "warning"

\* C7: a script run that showed the tabs has rendered each of the four panels
\* with its result or its warning.
C7_AllPanelsRendered ==
  \A s \in Sessions :
    (pc[s] = "idle" /\ panel[s]["flashcards"] # "none")
      => \A t \in Tasks : panel[s][t] \in {"result", "warning"}

\* C8 as stated: cleaning a cleaned URL changes nothing, for every raw URL.
C8_CleanIdempotent == cleanings = 2 => clean_again = clean_url

\* C8 as amended: a URL that neither starts nor ends with whitespace or a
\* double quote is returned unchanged, such a URL wrapped in one pair of double
\* quotes is returned without them, and cleaning is idempotent on every raw
\* URL whose cleaned form neither starts nor ends with whitespace or a quote.
C8_CleanIdempotentOnClean ==
  /\ (cleanings >= 1 /\ IsClean(raw_url)) => clean_url = raw_url
  /\ (cleanings >= 1 /\ Len(raw_url) >= 2 /\ Head(raw_url) = QUOTE
        /\ raw_url[Len(raw_url)] = QUOTE /\ IsClean(SubSeq(raw_url, 2, Len(raw_url) - 1)))
       => clean_url = SubSeq(raw_url, 2, Len(raw_url) - 1)
  /\ (cleanings = 2 /\ IsClean(clean_url)) => clean_again = clean_url

\* A quoted URL with whitespace around it was cleaned twice.
C8_Witness ==
  /\ cleanings = 2
  /\ raw_url = <<" ", QUOTE, "a", QUOTE>>
  /\ clean_url = <<"a">>
  /\ clean_again = <<"a">>

\* C9: without an API key no call of generate_content reaches the remote
\* model, and every call returns None.
C9_NoClientNoRemoteCall ==
  [][apiKey = "None" =>
       \A s \in Sessions, t \in Tasks :
         CallStep(s, t) => (results'[s][t] = NoneRet /\ ~CallsRemote(client, KeyOf(s, t)))]_vars

\* Without an API key a session has uploaded notes and its script has run.
C9_Witness ==
  /\ apiKey = "None"
  /\ \E s \in Sessions : uploaded_files[s] # <<>> /\ pc[s] = "idle" /\ ~ready[s]

\* C10: no generation request is issued with the empty image list that an
\* Analyze click leaves when a file of the batch fails to decode.
C10_NoRequestAfterDecodeFailure ==
  [][\A s \in Sessions, t \in Tasks : CallStep(s, t) => image_list[s] # <<>>]_vars

====
